---- MODULE Spec2Model ----
(***************************************************************************)
(* State-machine model of GaleaSerial                                      *)
(* (src/src/board_controller/openbci/galea_serial.cpp): the session        *)
(* lifecycle driven by one control thread (prepare_session, config_board,  *)
(* start_stream, stop_stream, release_session), the clock probe calc_time  *)
(* and the acquisition loop read_thread running on its own thread.         *)
(***************************************************************************)
EXTENDS Integers, Sequences, FiniteSets, TLC

(***************************************************************************)
(* Bounds of the model.                                                    *)
(***************************************************************************)
\* valid frames the device delivers over a whole run (bounds the sink)
MaxFrames == 2
\* Transport reads that return a negative error code while a body is read
MaxNegReads == 1
\* Serial objects that may be allocated and never deleted
MaxLeaks == 1
\* dense packages per frame and compact sub-packages per dense package
num_base_packages == 2
num_exg_packages_per_base == 1
\* size of the frame body in bytes
transaction_size == 3
\* bytes in front of the first start sentinel of a scripted byte stream
MaxJunk == 2
\* well-formed frames of the long scripted byte stream
RunFrames == 11

(***************************************************************************)
(* Program constants.                                                      *)
(***************************************************************************)
\* stop_stream: cap on the single-byte reads of the drain loop
max_attempt == 40000
\* start_stream / stop_stream: number of clock probes in a row
num_probes == 3
\* calc_time: length of the probe command and of its reply
probe_cmd_len == 5
bytes_to_calc_rtt == 4
\* read_thread: DataBuffer time_buffer (1, 11) and the window asked of it
time_buffer_size == 11
max_time_deltas == 10
\* read_thread: device timestamps are in milliseconds
ms_per_second == 1000
\* read_thread: bytes of a dense package the decode reads, from its counter
\* byte to the end of its timestamp (b + 64 + offset, 4 bytes)
base_fields_size == 68
\* read_thread: bytes of a compact sub-package the decode reads, from its
\* first sample to the end of its timestamp (b + 48 + exg_offset, 4 bytes)
exg_fields_size == 52
\* read_thread: sample positions of a group (i = 4 .. 19, tmp_counter 0 .. 15)
num_sample_positions == 16

\* sizes of the regions of a frame body: a dense package, a compact
\* sub-package, and a dense package with its compact sub-packages
base_package_size == base_fields_size
exg_package_size == exg_fields_size
bytes_in_single_entry ==
    base_package_size + num_exg_packages_per_base * exg_package_size

\* round-trip durations a probe may measure (half_rtt is duration / 2)
Durations == {2, 4}
\* commands given to config_board: the reserved one and an ordinary one
Confs == {"calc_time", "x"}
\* number of bytes pending in the OS buffer when stop_stream drains it
DrainBytes == {0, 1, max_attempt - 2, max_attempt - 1, max_attempt}

VARIABLES
    serial,          \* "NULL" | "closed" (object, port not open) | "open"
    live_serials,    \* Serial objects created and not deleted
    initialized,     \* GaleaSerial::initialized
    is_streaming,    \* GaleaSerial::is_streaming
    keep_alive,      \* GaleaSerial::keep_alive, the run flag
    state,           \* GaleaSerial::state, the first-frame flag
    half_rtt,        \* GaleaSerial::half_rtt
    m,               \* holder of the mutex GaleaSerial::m
    threads,         \* streaming threads spawned and not joined
    thr,             \* position of read_thread
    pos,             \* read_thread: pos
    remaining_bytes, \* read_thread: remaining_bytes
    cur_base_package,\* read_thread: cur_base_package
    exg_package_num, \* read_thread: exg_package_num
    sink,            \* rows given to push_package, in order
    frames,          \* frames validated so far (all runs)
    run_frames,      \* frames validated by the thread of the last spawn
    neg_reads,       \* negative read results delivered so far
    stream,          \* the bytes the Transport will deliver to the loop
    body,            \* read_thread: fields of b the decode uses
    package_num,     \* read_thread: package[package_num_channel]
    time_buffer,     \* read_thread: time_buffer, oldest entry first
    time_delta,      \* read_thread: time_delta after smoothing (sum, count)
    observed,        \* offset observations of the running thread, in order
    ctl,             \* position of the control thread
    caller,          \* the operation stop_stream was called from
    i,               \* loop counter of the probe loops
    ret,             \* last operation and its return code
    io               \* Transport I/O of the last control-thread step

vars == <<serial, live_serials, initialized, is_streaming, keep_alive, state,
          half_rtt, m, threads, thr, pos, remaining_bytes, cur_base_package,
          exg_package_num, sink, frames, run_frames, neg_reads, stream,
          body, package_num, time_buffer, time_delta, observed, ctl, caller,
          i, ret, io>>

sessionVars == <<serial, live_serials, initialized, is_streaming, keep_alive,
                 state, half_rtt, m>>
\* what the decode of a frame reads and writes besides the sink
decodeVars == <<stream, body, package_num, time_buffer, time_delta, observed>>
threadVars == <<threads, thr, pos, remaining_bytes, cur_base_package,
                exg_package_num, sink, frames, run_frames, neg_reads,
                decodeVars>>
loopVars == <<pos, remaining_bytes, cur_base_package, exg_package_num, sink,
              frames, run_frames, neg_reads, decodeVars>>

\* Transport I/O done by one step of the control thread; concurrent tells
\* whether a streaming thread was alive (spawned, not joined) at that step.
\* opens is the number of open_serial_port calls the step made.
NoIO ==
    [by |-> "none", op |-> "none", cmd |-> "", concurrent |-> FALSE, opens |-> 0,
     fail |-> FALSE]
IO(by, op, cmd) ==
    [by |-> by, op |-> op, cmd |-> cmd, concurrent |-> threads > 0, opens |-> 0,
     fail |-> FALSE]
Opened(r) == [r EXCEPT !.opens = 1]
Ret(op, code) == [op |-> op, code |-> code]

\* the loop thread has been spawned and has not returned from read_thread
ThreadRunning == threads > 0 /\ thr # "exit"

\* the Transport of a device that sends whatever it likes
LiveStream == [kind |-> "live", bytes |-> <<>>, junk |-> 0, tails |-> <<>>]
\* b and time_delta before the first frame
ZeroBody ==
    [counter |-> [j \in 1 .. num_base_packages |-> 0],
     ts |-> [j \in 1 .. num_base_packages |-> 0]]
NoDelta == [sum |-> 0, num |-> 0]

Init ==
    /\ serial = "NULL"
    /\ live_serials = 0
    /\ initialized = FALSE
    /\ is_streaming = FALSE
    /\ keep_alive = FALSE
    /\ state = "SYNC_TIMEOUT_ERROR"
    /\ half_rtt = 0
    /\ m = "free"
    /\ threads = 0
    /\ thr = "none"
    /\ pos = 0
    /\ remaining_bytes = 0
    /\ cur_base_package = 0
    /\ exg_package_num = 0
    /\ sink = <<>>
    /\ frames = 0
    /\ run_frames = 0
    /\ neg_reads = 0
    /\ stream = LiveStream
    /\ body = ZeroBody
    /\ package_num = 0
    /\ time_buffer = <<>>
    /\ time_delta = NoDelta
    /\ observed = <<>>
    /\ ctl = "idle"
    /\ caller = "none"
    /\ i = 0
    /\ ret = Ret("none", "STATUS_OK")
    /\ io = NoIO

(***************************************************************************)
(* Transport results.  A send on an object whose port is not open fails;   *)
(* on an open port it writes everything or falls short.                    *)
(***************************************************************************)
SendResults(len) == IF serial = "open" THEN {len, len - 1} ELSE {-1}
RecvResults(len) == IF serial = "open" THEN {len, 0} ELSE {-1}

(***************************************************************************)
(* calc_time: res_send and res_recv are the results of the send of the     *)
(* probe command and of the read of its reply, d the measured duration.    *)
(***************************************************************************)
calc_time_code(res_send, res_recv) ==
    IF res_send # probe_cmd_len THEN "BOARD_WRITE_ERROR"
    ELSE IF res_recv # bytes_to_calc_rtt THEN "BOARD_WRITE_ERROR"
    ELSE "STATUS_OK"

\* variant: half_rtt is assigned as soon as the command was written
calc_time_half_rtt_BeforeRecv(res_send, res_recv, d) ==
    IF res_send = probe_cmd_len THEN d \div 2 ELSE half_rtt

calc_time_half_rtt(res_send, res_recv, d) ==
    IF calc_time_code(res_send, res_recv) = "STATUS_OK" THEN d \div 2 ELSE half_rtt

\* the Transport access of a step that runs calc_time; fail tells whether
\* calc_time returned an error
ProbeIO(by, res_send, res_recv) ==
    [IO(by, "probe", "F444") EXCEPT
        !.fail = calc_time_code(res_send, res_recv) # "STATUS_OK"]

(***************************************************************************)
(* prepare_session, one call.  The inputs are the results of the checks    *)
(* and Transport calls it makes, in order.                                 *)
(***************************************************************************)
\* the part of prepare_session after the check of initialized
prepare_created(port_empty, open_ok, settings_ok, baud_ok, cmd1_ok, cmd2_ok) ==
    IF port_empty
    THEN /\ ret' = Ret("prepare", "INVALID_ARGUMENTS_ERROR")
         /\ io' = NoIO
         /\ UNCHANGED <<serial, live_serials, initialized>>
    ELSE IF ~open_ok
    THEN \* Serial::create, open fails: the object is neither deleted
         \* nor is the pointer reset
         /\ live_serials < MaxLeaks
         /\ serial' = "closed"
         /\ live_serials' = live_serials + 1
         /\ ret' = Ret("prepare", "UNABLE_TO_OPEN_PORT_ERROR")
         /\ io' = Opened(NoIO)
         /\ UNCHANGED initialized
    ELSE IF ~settings_ok \/ ~baud_ok
    THEN \* created, then deleted again
         /\ serial' = "NULL"
         /\ ret' = Ret("prepare", "SET_PORT_ERROR")
         /\ io' = Opened(NoIO)
         /\ UNCHANGED <<live_serials, initialized>>
    ELSE IF ~cmd1_ok \/ ~cmd2_ok
    THEN /\ serial' = "NULL"
         /\ ret' = Ret("prepare", "BOARD_NOT_READY_ERROR")
         /\ io' = Opened(IO("prepare", "send", IF cmd1_ok THEN "~6" ELSE "o"))
         /\ UNCHANGED <<live_serials, initialized>>
    ELSE /\ serial' = "open"
         /\ live_serials' = live_serials + 1
         /\ initialized' = TRUE
         /\ ret' = Ret("prepare", "STATUS_OK")
         /\ io' = Opened(IO("prepare", "send", "~6"))

\* variant: the check of initialized is missing
prepare_session_Reopen(port_empty, open_ok, settings_ok, baud_ok, cmd1_ok, cmd2_ok) ==
    /\ ctl = "idle"
    /\ UNCHANGED <<is_streaming, keep_alive, state, half_rtt, m, threadVars,
                   ctl, caller, i>>
    /\ prepare_created(port_empty, open_ok, settings_ok, baud_ok, cmd1_ok, cmd2_ok)

prepare_session(port_empty, open_ok, settings_ok, baud_ok, cmd1_ok, cmd2_ok) ==
    /\ ctl = "idle"
    /\ UNCHANGED <<is_streaming, keep_alive, state, half_rtt, m, threadVars,
                   ctl, caller, i>>
    /\ IF initialized
       THEN /\ ret' = Ret("prepare", "STATUS_OK")
            /\ io' = NoIO
            /\ UNCHANGED <<serial, live_serials, initialized>>
       ELSE prepare_created(port_empty, open_ok, settings_ok, baud_ok,
                            cmd1_ok, cmd2_ok)

\* a result prepare_session does not get to, because an earlier step
\* failed, is given as TRUE
PrepareResults(port_empty, open_ok, settings_ok, baud_ok, cmd1_ok, cmd2_ok) ==
    /\ port_empty => (open_ok /\ settings_ok /\ baud_ok /\ cmd1_ok /\ cmd2_ok)
    /\ ~open_ok => (settings_ok /\ baud_ok /\ cmd1_ok /\ cmd2_ok)
    /\ ~settings_ok => (baud_ok /\ cmd1_ok /\ cmd2_ok)
    /\ ~baud_ok => (cmd1_ok /\ cmd2_ok)
    /\ ~cmd1_ok => cmd2_ok

Prepare ==
    \E port_empty, open_ok, settings_ok, baud_ok, cmd1_ok, cmd2_ok \in BOOLEAN :
        /\ PrepareResults(port_empty, open_ok, settings_ok, baud_ok, cmd1_ok,
                          cmd2_ok)
        /\ prepare_session(port_empty, open_ok, settings_ok, baud_ok, cmd1_ok,
                           cmd2_ok)

(***************************************************************************)
(* config_board, one call.                                                 *)
(***************************************************************************)
\* variant: the reserved command is never refused
ProbeRefused_Never == FALSE

\* config_board: the reserved command is refused while streaming
ProbeRefused == is_streaming

config_board(conf, res_send, res_recv, d) ==
    /\ ctl = "idle"
    /\ UNCHANGED <<serial, live_serials, initialized, is_streaming, keep_alive,
                   state, m, threadVars, ctl, caller, i>>
    /\ IF serial = "NULL"
       THEN /\ ret' = Ret("config", "BOARD_NOT_CREATED_ERROR")
            /\ io' = NoIO
            /\ UNCHANGED half_rtt
       ELSE IF conf = "calc_time"
       THEN IF ProbeRefused
            THEN /\ ret' = Ret("config", "BOARD_NOT_CREATED_ERROR")
                 /\ io' = NoIO
                 /\ UNCHANGED half_rtt
            ELSE /\ ret' = Ret("config", calc_time_code(res_send, res_recv))
                 /\ io' = ProbeIO("config", res_send, res_recv)
                 /\ half_rtt' = calc_time_half_rtt(res_send, res_recv, d)
       ELSE /\ ret' = Ret("config", IF res_send = Len(conf) + 1
                                    THEN "STATUS_OK" ELSE "BOARD_WRITE_ERROR")
            /\ io' = IO("config", "send", conf)
            /\ UNCHANGED half_rtt

\* a result config_board does not get to (the reply of a command that is
\* no probe or was not fully written, the duration of a failed probe) is
\* given as the least one
ConfigResults(conf, res_send, res_recv, d) ==
    /\ (conf # "calc_time" \/ res_send # probe_cmd_len) =>
           \A r \in RecvResults(bytes_to_calc_rtt) : res_recv <= r
    /\ calc_time_code(res_send, res_recv) # "STATUS_OK" =>
           \A e \in Durations : d <= e

Config ==
    \E conf \in Confs :
        \E res_send \in SendResults(IF conf = "calc_time" THEN probe_cmd_len
                                    ELSE Len(conf) + 1),
           res_recv \in RecvResults(bytes_to_calc_rtt), d \in Durations :
            /\ ConfigResults(conf, res_send, res_recv, d)
            /\ config_board(conf, res_send, res_recv, d)

(***************************************************************************)
(* stop_stream.  It is called by the user ("stop"), by start_stream on a   *)
(* synchronization timeout ("start") and by release_session ("release").   *)
(***************************************************************************)
\* the return of stop_stream to its caller c with the given code
StopReturn(c, code) ==
    /\ caller' = "none"
    /\ IF c = "stop"
       THEN ctl' = "idle" /\ ret' = Ret("stop", code) /\ m' = m
       ELSE IF c = "start"
       THEN \* start_stream returns; its unique_lock is released
            ctl' = "idle" /\ ret' = Ret("start", "SYNC_TIMEOUT_ERROR") /\ m' = "free"
       ELSE ctl' = "release_free" /\ ret' = ret /\ m' = m

StopCall ==
    /\ ctl = "idle"
    /\ io' = NoIO
    /\ UNCHANGED <<serial, live_serials, initialized, state, half_rtt,
                   threadVars, i>>
    /\ IF is_streaming
       THEN /\ keep_alive' = FALSE
            /\ is_streaming' = FALSE
            /\ ctl' = "stop_join"
            /\ caller' = "stop"
            /\ ret' = Ret("stop", "PENDING")
            /\ UNCHANGED m
       ELSE /\ StopReturn("stop", "STREAM_THREAD_IS_NOT_RUNNING")
            /\ UNCHANGED <<keep_alive, is_streaming>>

\* variant: the stop command is sent before the thread is joined
StopJoin_SendFirst ==
    /\ ctl = "stop_join"
    /\ threads > 0
    /\ io' = IO("stop", "send", "s")
    /\ ctl' = "stop_join_late"
    /\ UNCHANGED <<sessionVars, threadVars, caller, i, ret>>

\* variant: the first-frame flag is not reset after the join
StopJoin_NoReset ==
    /\ ctl = "stop_join"
    /\ threads > 0
    /\ thr = "exit"
    /\ threads' = threads - 1
    /\ thr' = "none"
    /\ ctl' = "stop_send"
    /\ io' = NoIO
    /\ UNCHANGED <<sessionVars, loopVars, caller, i, ret>>

\* variant: the thread is not joined
StopJoin_NoJoin ==
    /\ ctl = "stop_join"
    /\ state' = "SYNC_TIMEOUT_ERROR"
    /\ ctl' = "stop_send"
    /\ io' = NoIO
    /\ UNCHANGED <<serial, live_serials, initialized, is_streaming, keep_alive,
                   half_rtt, m, threadVars, caller, i, ret>>

\* streaming_thread.join () and the reset of the first-frame flag
StopJoin ==
    /\ ctl = "stop_join"
    /\ threads > 0
    /\ thr = "exit"
    /\ threads' = threads - 1
    /\ thr' = "none"
    /\ state' = "SYNC_TIMEOUT_ERROR"
    /\ ctl' = "stop_send"
    /\ io' = NoIO
    /\ UNCHANGED <<serial, live_serials, initialized, is_streaming, keep_alive,
                   half_rtt, m, loopVars, caller, i, ret>>

\* the stop command
StopSend ==
    /\ ctl = "stop_send"
    /\ io' = IO("stop", "send", "s")
    /\ UNCHANGED <<serial, live_serials, initialized, is_streaming, keep_alive,
                   state, half_rtt, threadVars, i>>
    /\ \E res \in SendResults(2) :
        IF res # 2
        THEN StopReturn(caller, "BOARD_WRITE_ERROR")
        ELSE ctl' = "stop_drain" /\ UNCHANGED <<caller, ret, m>>

\* the drain loop with n bytes pending: the number of reads it makes and
\* whether it ends on the cap
DrainAttempts(n) == IF n + 1 < max_attempt THEN n + 1 ELSE max_attempt
DrainHitsCap(n) == DrainAttempts(n) = max_attempt

\* the drain loop when n bytes are pending
StopDrainWith(n) ==
    /\ ctl = "stop_drain"
    /\ io' = IO("stop", "recv", "")
    /\ UNCHANGED <<serial, live_serials, initialized, is_streaming, keep_alive,
                   state, half_rtt, threadVars>>
    /\ IF DrainHitsCap(n)
       THEN StopReturn(caller, "BOARD_WRITE_ERROR") /\ UNCHANGED i
       ELSE ctl' = "stop_probe" /\ i' = 0 /\ UNCHANGED <<caller, ret, m>>

StopDrain == \E n \in DrainBytes : StopDrainWith(n)

\* the trailing probes: a failure ends the loop and is not reported
\* variant: a failed probe makes stop_stream return the probe's error
StopProbeWith_Fatal(res_send, res_recv, d) ==
    /\ ctl = "stop_probe"
    /\ io' = ProbeIO("stop", res_send, res_recv)
    /\ UNCHANGED <<serial, live_serials, initialized, is_streaming, keep_alive,
                   state, threadVars>>
    /\ half_rtt' = calc_time_half_rtt(res_send, res_recv, d)
    /\ IF calc_time_code(res_send, res_recv) # "STATUS_OK"
       THEN StopReturn(caller, calc_time_code(res_send, res_recv)) /\ i' = 0
       ELSE IF i + 1 = num_probes
       THEN StopReturn(caller, "STATUS_OK") /\ i' = 0
       ELSE i' = i + 1 /\ UNCHANGED <<ctl, caller, ret, m>>

\* one pass of the probe loop at the end of stop_stream: a failure ends
\* the loop, and stop_stream returns STATUS_OK after the loop
StopProbeWith(res_send, res_recv, d) ==
    /\ ctl = "stop_probe"
    /\ io' = ProbeIO("stop", res_send, res_recv)
    /\ UNCHANGED <<serial, live_serials, initialized, is_streaming, keep_alive,
                   state, threadVars>>
    /\ half_rtt' = calc_time_half_rtt(res_send, res_recv, d)
    /\ IF calc_time_code(res_send, res_recv) # "STATUS_OK" \/ i + 1 = num_probes
       THEN StopReturn(caller, "STATUS_OK") /\ i' = 0
       ELSE i' = i + 1 /\ UNCHANGED <<ctl, caller, ret, m>>

StopProbe ==
    \E res_send \in SendResults(probe_cmd_len),
       res_recv \in RecvResults(bytes_to_calc_rtt), d \in Durations :
        StopProbeWith(res_send, res_recv, d)

(***************************************************************************)
(* start_stream.                                                           *)
(***************************************************************************)
\* variant: the check of is_streaming is missing
StartCheck_NoRunningCheck ==
    IF ~initialized THEN "BOARD_NOT_CREATED_ERROR" ELSE "STATUS_OK"

\* variant: the second check returns the code of the first
StartCheck_CopyPaste ==
    IF ~initialized THEN "BOARD_NOT_CREATED_ERROR"
    ELSE IF is_streaming THEN "BOARD_NOT_CREATED_ERROR"
    ELSE "STATUS_OK"

\* the code of the checks at the head of start_stream
StartCheck ==
    IF ~initialized THEN "BOARD_NOT_CREATED_ERROR"
    ELSE IF is_streaming THEN "STREAM_ALREADY_RUN_ERROR"
    ELSE "STATUS_OK"

StartCall ==
    /\ ctl = "idle"
    /\ io' = NoIO
    /\ UNCHANGED <<sessionVars, threadVars, caller>>
    /\ IF StartCheck # "STATUS_OK"
       THEN ret' = Ret("start", StartCheck) /\ UNCHANGED <<ctl, i>>
       ELSE ret' = Ret("start", "PENDING") /\ ctl' = "start_probe" /\ i' = 0

\* variant: a failed probe does not end the loop
StartProbeWith_IgnoreFailure(res_send, res_recv, d) ==
    /\ ctl = "start_probe"
    /\ io' = ProbeIO("start", res_send, res_recv)
    /\ UNCHANGED <<serial, live_serials, initialized, is_streaming, keep_alive,
                   state, m, threadVars, caller>>
    /\ half_rtt' = calc_time_half_rtt(res_send, res_recv, d)
    /\ i' = i + 1
    /\ ctl' = IF i + 1 = num_probes THEN "start_send" ELSE ctl
    /\ UNCHANGED ret

\* one pass of the probe loop: the first failure is returned
StartProbeWith(res_send, res_recv, d) ==
    /\ ctl = "start_probe"
    /\ io' = ProbeIO("start", res_send, res_recv)
    /\ UNCHANGED <<serial, live_serials, initialized, is_streaming, keep_alive,
                   state, m, threadVars, caller>>
    /\ half_rtt' = calc_time_half_rtt(res_send, res_recv, d)
    /\ IF calc_time_code(res_send, res_recv) # "STATUS_OK"
       THEN /\ ret' = Ret("start", calc_time_code(res_send, res_recv))
            /\ ctl' = "idle"
            /\ i' = 0
       ELSE /\ i' = i + 1
            /\ ctl' = IF i + 1 = num_probes THEN "start_send" ELSE ctl
            /\ UNCHANGED ret

StartProbe ==
    \E res_send \in SendResults(probe_cmd_len),
       res_recv \in RecvResults(bytes_to_calc_rtt), d \in Durations :
        StartProbeWith(res_send, res_recv, d)

\* the locals of read_thread as it sets them up before its loop
ThreadLocals ==
    /\ body' = ZeroBody
    /\ package_num' = 0
    /\ time_buffer' = <<>>
    /\ time_delta' = NoDelta
    /\ observed' = <<>>
    /\ UNCHANGED stream

\* variant: the thread is spawned before the start command is sent
StartSend_SpawnFirst ==
    /\ ctl = "start_send"
    /\ UNCHANGED <<serial, live_serials, initialized, is_streaming, state,
                   half_rtt, m, sink, frames, neg_reads, cur_base_package,
                   exg_package_num, pos, remaining_bytes, caller, i>>
    /\ \E acq_ok \in BOOLEAN, res \in SendResults(2) :
        IF ~acq_ok
        THEN /\ ret' = Ret("start", "INVALID_BUFFER_SIZE_ERROR")
             /\ ctl' = "idle"
             /\ io' = NoIO
             /\ UNCHANGED <<keep_alive, threads, thr, run_frames, decodeVars>>
        ELSE /\ io' = IO("start", "send", "b")
             /\ keep_alive' = TRUE
             /\ threads' = threads + 1
             /\ thr' = "read_first"
             /\ run_frames' = 0
             /\ ThreadLocals
             /\ IF res # 2
                THEN ret' = Ret("start", "BOARD_WRITE_ERROR") /\ ctl' = "idle"
                ELSE ctl' = "start_wait" /\ UNCHANGED ret

\* prepare_for_acquisition, the start command, keep_alive and the spawn
StartSend ==
    /\ ctl = "start_send"
    /\ UNCHANGED <<serial, live_serials, initialized, is_streaming, state,
                   half_rtt, m, sink, frames, neg_reads, cur_base_package,
                   exg_package_num, pos, remaining_bytes, caller, i>>
    /\ \E acq_ok \in BOOLEAN, res \in SendResults(2) :
        IF ~acq_ok
        THEN /\ ret' = Ret("start", "INVALID_BUFFER_SIZE_ERROR")
             /\ ctl' = "idle"
             /\ io' = NoIO
             /\ UNCHANGED <<keep_alive, threads, thr, run_frames, decodeVars>>
        ELSE IF res # 2
        THEN /\ ret' = Ret("start", "BOARD_WRITE_ERROR")
             /\ ctl' = "idle"
             /\ io' = IO("start", "send", "b")
             /\ UNCHANGED <<keep_alive, threads, thr, run_frames, decodeVars>>
        ELSE /\ io' = IO("start", "send", "b")
             /\ keep_alive' = TRUE
             /\ threads' = threads + 1
             /\ thr' = "read_first"
             /\ run_frames' = 0
             /\ ThreadLocals
             /\ ctl' = "start_wait"
             /\ UNCHANGED ret

\* cv.wait_for returns true: the predicate holds when it is evaluated
StartWaitOk ==
    /\ ctl = "start_wait"
    /\ m = "free"
    /\ state # "SYNC_TIMEOUT_ERROR"
    /\ is_streaming' = TRUE
    /\ ret' = Ret("start", state)
    /\ ctl' = "idle"
    /\ io' = NoIO
    /\ UNCHANGED <<serial, live_serials, initialized, keep_alive, state,
                   half_rtt, m, threadVars, caller, i>>

\* variant: is_streaming is not set before stop_stream is called, which
\* then returns at once
StartWaitTimeout_NoFlag ==
    /\ ctl = "start_wait"
    /\ m = "free"
    /\ state = "SYNC_TIMEOUT_ERROR"
    /\ ret' = Ret("start", "SYNC_TIMEOUT_ERROR")
    /\ ctl' = "idle"
    /\ io' = NoIO
    /\ UNCHANGED <<sessionVars, threadVars, caller, i>>

\* cv.wait_for returns false: the wait expired with the predicate false.
\* The lock is held from here on; is_streaming is set and stop_stream is
\* entered, which clears it again together with keep_alive.
StartWaitTimeout ==
    /\ ctl = "start_wait"
    /\ m = "free"
    /\ state = "SYNC_TIMEOUT_ERROR"
    /\ m' = "ctl"
    /\ keep_alive' = FALSE
    /\ is_streaming' = FALSE
    /\ ctl' = "stop_join"
    /\ caller' = "start"
    /\ io' = NoIO
    /\ UNCHANGED <<serial, live_serials, initialized, state, half_rtt,
                   threadVars, i, ret>>

(***************************************************************************)
(* release_session.                                                        *)
(***************************************************************************)
ReleaseCall ==
    /\ ctl = "idle"
    /\ io' = NoIO
    /\ UNCHANGED <<state, half_rtt, m, threadVars, i>>
    /\ IF initialized /\ is_streaming
       THEN /\ keep_alive' = FALSE
            /\ is_streaming' = FALSE
            /\ ctl' = "stop_join"
            /\ caller' = "release"
            /\ ret' = Ret("release", "PENDING")
            /\ UNCHANGED <<serial, live_serials, initialized>>
       ELSE IF initialized
       THEN /\ initialized' = FALSE
            /\ serial' = "NULL"
            /\ live_serials' = IF serial # "NULL" THEN live_serials - 1
                               ELSE live_serials
            /\ ret' = Ret("release", "STATUS_OK")
            /\ UNCHANGED <<keep_alive, is_streaming, ctl, caller>>
       ELSE /\ ret' = Ret("release", "STATUS_OK")
            /\ UNCHANGED <<serial, live_serials, initialized, keep_alive,
                           is_streaming, ctl, caller>>

\* after the nested stop_stream: free_packages, delete serial
ReleaseFinish ==
    /\ ctl = "release_free"
    /\ initialized' = FALSE
    /\ serial' = "NULL"
    /\ live_serials' = IF serial # "NULL" THEN live_serials - 1 ELSE live_serials
    /\ ret' = Ret("release", "STATUS_OK")
    /\ ctl' = "idle"
    /\ io' = NoIO
    /\ UNCHANGED <<is_streaming, keep_alive, state, half_rtt, m, threadVars,
                   caller, i>>

(***************************************************************************)
(* The byte stream.  A live stream delivers any byte at any time; a        *)
(* scripted stream delivers its bytes in order and then nothing.           *)
(***************************************************************************)
\* results of a one-byte read: no byte, or the kind of the byte read
ByteKinds == {"none", "other", "start", "stop"}

Min(a, b) == IF a < b THEN a ELSE b

\* what a one-byte read can return now
Avail ==
    IF stream.kind = "live" THEN ByteKinds
    ELSE IF stream.bytes = <<>> THEN {"none"}
    ELSE {Head(stream.bytes)}

\* the stream after a read took n of its bytes
Consume(n) ==
    IF stream.kind = "live" THEN stream
    ELSE [stream EXCEPT !.bytes = SubSeq(@, n + 1, Len(@))]

\* results of a read of remaining_bytes bytes: a count up to the request,
\* zero on timeout, a negative error code
BodyResults ==
    IF stream.kind = "live"
    THEN (0 .. remaining_bytes) \cup {-1}
    ELSE 0 .. Min(remaining_bytes, Len(stream.bytes))

\* host clock readings, in seconds
Timestamps == {10}
\* counter byte and device timestamp (ms) of each dense package of a body
SyncBodies ==
    {[counter |-> c, ts |-> t] :
        c \in [1 .. num_base_packages -> {0, 255}],
        t \in [1 .. num_base_packages -> {1000, 4000}]}
RunBodies ==
    {[counter |-> [j \in 1 .. num_base_packages |-> 7],
      ts |-> [j \in 1 .. num_base_packages |->
                 IF j = num_base_packages THEN t ELSE 0]] : t \in {2000, 7000}}
LiveBodies ==
    {[counter |-> [j \in 1 .. num_base_packages |-> 0],
      ts |-> [j \in 1 .. num_base_packages |-> 1000 * j]]}
Bodies ==
    IF stream.kind = "live" THEN LiveBodies
    ELSE IF stream.kind = "sync" THEN SyncBodies
    ELSE RunBodies

(***************************************************************************)
(* DataBuffer: a ring of buffer_size slots of which one is kept free, so   *)
(* it holds the most recent buffer_size - 1 entries.                       *)
(***************************************************************************)
add_data(buf, v) ==
    IF Len(buf) + 1 >= time_buffer_size THEN Append(Tail(buf), v)
    ELSE Append(buf, v)

get_current_data(n, buf) ==
    SubSeq(buf, Len(buf) - Min(n, Len(buf)) + 1, Len(buf))

RECURSIVE SeqSum(_)
SeqSum(q) == IF q = <<>> THEN 0 ELSE Head(q) + SeqSum(Tail(q))

\* variant: the sum is always divided by the size of the window
smoothed_FixedDivisor(buf) ==
    [sum |-> SeqSum(get_current_data(max_time_deltas, buf)),
     num |-> max_time_deltas]

\* time_delta after the smoothing, kept as the sum and the number of terms
smoothed(buf) ==
    [sum |-> SeqSum(get_current_data(max_time_deltas, buf)),
     num |-> Len(get_current_data(max_time_deltas, buf))]

\* the offset observation of a validated frame with body bd, taken at host
\* time pc, and the smoothing of the history
Observe(pc, bd) ==
    /\ time_buffer' = add_data(time_buffer,
                               pc - (bd.ts[num_base_packages] \div ms_per_second))
    /\ observed' = Append(observed,
                          pc - (bd.ts[num_base_packages] \div ms_per_second))
    /\ time_delta' = smoothed(time_buffer')

\* the scale applied to the sample at position tmp_counter of a dense
\* package and of a compact sub-package
base_scale(tmp_counter) ==
    IF tmp_counter < 6 THEN "emg_scale"
    ELSE IF tmp_counter = 6 \/ tmp_counter = 7 THEN "eeg_scale_sister_board"
    ELSE "eeg_scale_main_board"

exg_scale(tmp_counter) ==
    IF tmp_counter < 6 THEN "emg_scale"
    ELSE IF tmp_counter = 6 \/ tmp_counter = 11 THEN "eeg_scale_sister_board"
    ELSE "eeg_scale_main_board"

\* the first byte of the body the decode of a row reads: offset for a
\* dense package, exg_offset for compact sub-package exg_package_num
row_offset(base, sub) ==
    IF sub = 0 THEN base * bytes_in_single_entry
    ELSE base * bytes_in_single_entry + exg_package_size * (sub - 1)

\* the scale of each sample position of a row, and the first and the last
\* byte of the body the row is decoded from
row_scales(row) ==
    [tmp_counter \in 0 .. num_sample_positions - 1 |->
        IF row.sub = 0 THEN base_scale(tmp_counter) ELSE exg_scale(tmp_counter)]
row_first(row) == row_offset(row.base, row.sub)
row_last(row) ==
    row_offset(row.base, row.sub)
        + (IF row.sub = 0 THEN base_fields_size ELSE exg_fields_size) - 1

\* the row pushed for sub-package sub (0: the dense package itself)
Row(base, sub, num) ==
    [base |-> base, sub |-> sub, counter |-> num, offset |-> time_delta]

(***************************************************************************)
(* read_thread.                                                            *)
(***************************************************************************)
ctlVars == <<serial, live_serials, initialized, is_streaming, keep_alive,
             half_rtt, ctl, caller, i, ret, io>>
timeVars == <<time_buffer, time_delta, observed>>

\* variant: the stop sentinel also opens a frame
ReadFirstWith_AnySentinel(byte) ==
    /\ threads > 0
    /\ thr = "read_first"
    /\ UNCHANGED <<ctlVars, state, m, threads, cur_base_package,
                   exg_package_num, sink, frames, run_frames, neg_reads,
                   body, package_num, timeVars>>
    /\ IF ~keep_alive
       THEN /\ byte = "none"
            /\ thr' = "exit"
            /\ UNCHANGED <<pos, remaining_bytes, stream>>
       ELSE /\ byte \in Avail
            /\ stream' = IF byte = "none" THEN stream ELSE Consume(1)
            /\ IF byte \in {"start", "stop"}
               THEN /\ remaining_bytes' = transaction_size
                    /\ pos' = 0
                    /\ thr' = "read_body"
               ELSE UNCHANGED <<thr, pos, remaining_bytes>>


\* while (keep_alive): a one-byte read that returned byte
ReadFirstWith(byte) ==
    /\ threads > 0
    /\ thr = "read_first"
    /\ UNCHANGED <<ctlVars, state, m, threads, cur_base_package,
                   exg_package_num, sink, frames, run_frames, neg_reads,
                   body, package_num, timeVars>>
    /\ IF ~keep_alive
       THEN /\ byte = "none"
            /\ thr' = "exit"
            /\ UNCHANGED <<pos, remaining_bytes, stream>>
       ELSE /\ byte \in Avail
            /\ stream' = IF byte = "none" THEN stream ELSE Consume(1)
            /\ IF byte = "start"
               THEN /\ remaining_bytes' = transaction_size
                    /\ pos' = 0
                    /\ thr' = "read_body"
               ELSE UNCHANGED <<thr, pos, remaining_bytes>>

\* read one byte and look for the start sentinel
ReadFirst == \E byte \in ByteKinds : ReadFirstWith(byte)

\* what a read that stored bytes in front of b can do to the process: go
\* on, or end the process
WriteOutcomes(at, res) ==
    IF at < 0 /\ res > 0 THEN {"continue", "abort"} ELSE {"continue"}

\* one pass of the accumulation loop of the body whose read stored its
\* bytes at b + pos and returned res, or the check of keep_alive after the
\* loop
ReadBodyWith(res) ==
    /\ threads > 0
    /\ thr = "read_body"
    /\ UNCHANGED <<serial, live_serials, initialized, is_streaming, keep_alive,
                   half_rtt, caller, i, ret, io, state, m, threads,
                   cur_base_package, exg_package_num, sink, frames,
                   run_frames, body, package_num, timeVars>>
    /\ IF remaining_bytes > 0 /\ keep_alive
       THEN /\ res \in BodyResults
            /\ res = -1 => neg_reads < MaxNegReads
            /\ neg_reads' = IF res = -1 THEN neg_reads + 1 ELSE neg_reads
            /\ remaining_bytes' = remaining_bytes - res
            /\ pos' = pos + res
            /\ stream' = IF res > 0 THEN Consume(res) ELSE stream
            /\ \E outcome \in WriteOutcomes(pos, res) :
                 IF outcome = "abort"
                 THEN thr' = "abort" /\ ctl' = "abort"
                 ELSE UNCHANGED <<thr, ctl>>
       ELSE /\ res = 0
            /\ thr' = IF ~keep_alive THEN "exit" ELSE "read_last"
            /\ UNCHANGED <<pos, remaining_bytes, neg_reads, stream, ctl>>

ReadBody == \E res \in -1 .. transaction_size : ReadBodyWith(res)

\* variant: the byte after the body is read and not compared
ReadLastWith_NoCheck(byte, bd, pc) ==
    /\ threads > 0
    /\ thr = "read_last"
    /\ byte \in Avail
    /\ stream' = IF byte = "none" THEN stream ELSE Consume(1)
    /\ UNCHANGED <<ctlVars, state, m, threads, pos, remaining_bytes,
                   exg_package_num, sink, neg_reads, package_num>>
    /\ IF byte # "none"
       THEN /\ stream.kind = "live" => frames < MaxFrames
            /\ frames' = frames + 1
            /\ run_frames' = run_frames + 1
            /\ cur_base_package' = 0
            /\ body' = bd
            /\ IF state # "STATUS_OK"
               THEN thr' = "lock_state" /\ UNCHANGED timeVars
               ELSE thr' = "push_base" /\ Observe(pc, bd)
       ELSE /\ thr' = "read_first"
            /\ UNCHANGED <<frames, run_frames, cur_base_package, body,
                           timeVars>>

\* the byte after the body: a stop sentinel validates the frame, whose
\* fields are bd; then the test of the first-frame flag and, when the flag
\* is already set, the offset observation at host time pc
ReadLastWith(byte, bd, pc) ==
    /\ threads > 0
    /\ thr = "read_last"
    /\ byte \in Avail
    /\ stream' = IF byte = "none" THEN stream ELSE Consume(1)
    /\ UNCHANGED <<ctlVars, state, m, threads, pos, remaining_bytes,
                   exg_package_num, sink, neg_reads, package_num>>
    /\ IF byte = "stop"
       THEN /\ stream.kind = "live" => frames < MaxFrames
            /\ frames' = frames + 1
            /\ run_frames' = run_frames + 1
            /\ cur_base_package' = 0
            /\ body' = bd
            /\ IF state # "STATUS_OK"
               THEN thr' = "lock_state" /\ UNCHANGED timeVars
               ELSE thr' = "push_base" /\ Observe(pc, bd)
       ELSE /\ thr' = "read_first"
            /\ UNCHANGED <<frames, run_frames, cur_base_package, body,
                           timeVars>>

ReadLast ==
    \E byte \in ByteKinds, bd \in Bodies, pc \in Timestamps :
        ReadLastWith(byte, bd, pc)

\* lock_guard (m); state = STATUS_OK; cv.notify_one (); then the offset
\* observation of this first frame
LockState ==
    /\ threads > 0
    /\ thr = "lock_state"
    /\ m = "free"
    /\ state' = "STATUS_OK"
    /\ thr' = "push_base"
    /\ \E pc \in Timestamps : Observe(pc, body)
    /\ UNCHANGED <<ctlVars, m, threads, pos, remaining_bytes,
                   cur_base_package, exg_package_num, sink, frames,
                   run_frames, neg_reads, stream, body, package_num>>

\* variant: a compact row repeats the counter of its dense package
PushRow_SameCounter(sub) ==
    /\ package_num' = IF sub = 0 THEN body.counter[cur_base_package + 1]
                      ELSE package_num
    /\ sink' = Append(sink, Row(cur_base_package, sub, package_num'))

\* the counter of a row and its push: a dense row takes the counter byte
\* of its package, a compact row the counter of the row before plus one
PushRow(sub) ==
    /\ package_num' = IF sub = 0 THEN body.counter[cur_base_package + 1]
                      ELSE package_num + 1
    /\ sink' = Append(sink, Row(cur_base_package, sub, package_num'))

\* the row of a dense package
PushBase ==
    /\ threads > 0
    /\ thr = "push_base"
    /\ PushRow(0)
    /\ exg_package_num' = 0
    /\ thr' = "push_exg"
    /\ UNCHANGED <<ctlVars, state, m, threads, pos, remaining_bytes,
                   cur_base_package, frames, run_frames, neg_reads, stream,
                   body, timeVars>>

\* the rows of its compact sub-packages, then the next dense package
PushExg ==
    /\ threads > 0
    /\ thr = "push_exg"
    /\ UNCHANGED <<ctlVars, state, m, threads, pos, remaining_bytes, frames,
                   run_frames, neg_reads, stream, body, timeVars>>
    /\ IF exg_package_num < num_exg_packages_per_base
       THEN /\ PushRow(exg_package_num + 1)
            /\ exg_package_num' = exg_package_num + 1
            /\ UNCHANGED <<thr, cur_base_package>>
       ELSE /\ cur_base_package' = cur_base_package + 1
            /\ thr' = IF cur_base_package + 1 < num_base_packages
                      THEN "push_base" ELSE "read_first"
            /\ UNCHANGED <<sink, exg_package_num, package_num>>

(***************************************************************************)
(* The system.                                                             *)
(***************************************************************************)
\* steps of the control thread inside an operation
ControlStep ==
    \/ StartProbe
    \/ StartSend
    \/ StartWaitOk
    \/ StartWaitTimeout
    \/ StopJoin
    \/ StopSend
    \/ StopDrain
    \/ StopProbe
    \/ ReleaseFinish

\* steps of the acquisition loop thread
ThreadStep ==
    \/ ReadFirst
    \/ ReadBody
    \/ ReadLast
    \/ LockState
    \/ PushBase
    \/ PushExg

\* calls made by the user while no operation is running
Call ==
    \/ Prepare
    \/ Config
    \/ StartCall
    \/ StopCall
    \/ ReleaseCall

Next == Call \/ ControlStep \/ ThreadStep

Spec == Init /\ [][Next]_vars

\* every Transport call returns and both threads are scheduled
FairSpec == Spec /\ WF_vars(ControlStep) /\ WF_vars(ThreadStep)

(***************************************************************************)
(* The acquisition loop on scripted byte streams.  A scripted stream is a  *)
(* run of bytes that are no start sentinel followed by frames; junk is the *)
(* number of leading bytes and tails lists, frame by frame, the byte that  *)
(* follows the body ("none": the stream ends with the body).               *)
(***************************************************************************)
SeqsUpTo(S, n) == UNION {[1 .. k -> S] : k \in 0 .. n}

RECURSIVE Repeat(_, _)
Repeat(q, n) == IF n = 0 THEN <<>> ELSE q \o Repeat(q, n - 1)

\* bodies: plain bytes, or bytes that look like sentinels
PlainBody == [j \in 1 .. transaction_size |-> "other"]
BodyBytes ==
    {PlainBody,
     [j \in 1 .. transaction_size |-> IF j % 2 = 1 THEN "stop" ELSE "start"]}

Frame(bb, tail) ==
    <<"start">> \o bb \o (IF tail = "none" THEN <<>> ELSE <<tail>>)

\* leading bytes, one frame with any trailing byte, then nothing or one
\* well-formed frame (nothing after a frame that lacks its trailing byte)
SyncStreams ==
    {[kind |-> "sync",
      bytes |-> lead \o Frame(bb, t[1])
                    \o (IF Len(t) = 2 THEN Frame(PlainBody, t[2])
                        ELSE <<>>),
      junk |-> Len(lead),
      tails |-> t] :
        lead \in SeqsUpTo({"other", "stop"}, MaxJunk),
        bb \in BodyBytes,
        t \in {<<"stop">>, <<"other">>, <<"start">>, <<"none">>,
               <<"stop", "stop">>, <<"other", "stop">>, <<"start", "stop">>}}

\* RunFrames well-formed frames back to back
RunStream ==
    [kind |-> "run",
     bytes |-> Repeat(Frame(PlainBody, "stop"), RunFrames),
     junk |-> 0,
     tails |-> [j \in 1 .. RunFrames |-> "stop"]]

\* the first thread of a session just after start_stream spawned it
LoopInit ==
    /\ serial = "open"
    /\ live_serials = 1
    /\ initialized = TRUE
    /\ is_streaming = FALSE
    /\ keep_alive = TRUE
    /\ state = "SYNC_TIMEOUT_ERROR"
    /\ half_rtt \in {d \div 2 : d \in Durations}
    /\ m = "free"
    /\ threads = 1
    /\ thr = "read_first"
    /\ pos = 0
    /\ remaining_bytes = 0
    /\ cur_base_package = 0
    /\ exg_package_num = 0
    /\ sink = <<>>
    /\ frames = 0
    /\ run_frames = 0
    /\ neg_reads = 0
    /\ stream \in SyncStreams \cup {RunStream}
    /\ body = ZeroBody
    /\ package_num = 0
    /\ time_buffer = <<>>
    /\ time_delta = NoDelta
    /\ observed = <<>>
    /\ ctl = "start_wait"
    /\ caller = "none"
    /\ i = num_probes
    /\ ret = Ret("start", "PENDING")
    /\ io = [by |-> "start", op |-> "send", cmd |-> "b", concurrent |-> FALSE,
             opens |-> 0, fail |-> FALSE]

\* the loop alone, while start_stream waits for the first frame
LoopSpec == LoopInit /\ [][ThreadStep]_vars

\* rows pushed for one frame
RowsPerFrame == num_base_packages * (1 + num_exg_packages_per_base)

TypeOK ==
    /\ serial \in {"NULL", "closed", "open"}
    /\ live_serials \in 0 .. MaxLeaks + 1
    /\ initialized \in BOOLEAN /\ is_streaming \in BOOLEAN /\ keep_alive \in BOOLEAN
    /\ state \in {"SYNC_TIMEOUT_ERROR", "STATUS_OK"}
    /\ m \in {"free", "ctl"}
    /\ threads \in 0 .. 1
    /\ thr \in {"none", "read_first", "read_body", "read_last", "lock_state",
                "push_base", "push_exg", "exit", "abort"}
    /\ stream.kind \in {"live", "sync", "run"}
    /\ frames \in 0 .. (IF stream.kind = "live" THEN MaxFrames ELSE RunFrames)
    /\ Len(sink) <= frames * RowsPerFrame
    /\ \A j \in 1 .. Len(stream.bytes) : stream.bytes[j] \in ByteKinds \ {"none"}
    /\ body \in Bodies \cup {ZeroBody}
    /\ package_num \in 0 .. 255 + num_exg_packages_per_base
    /\ Len(time_buffer) < time_buffer_size
    /\ Len(observed) <= run_frames
    /\ time_delta.num \in 0 .. max_time_deltas

(***************************************************************************)
(* Properties.                                                             *)
(***************************************************************************)
\* C1: in every reachable state at most one acquisition loop thread is
\* alive (spawned and not joined), and a thread is spawned only when none is.
C1_AtMostOneThread ==
    /\ threads <= 1
    /\ thr # "none" => threads = 1

C1_Witness ==
    /\ threads = 1 /\ ThreadRunning /\ is_streaming /\ ctl = "idle"
    /\ ret.op = "start" /\ Len(sink) > 0

\* C2 as stated: no step of the control thread sends to or receives from
\* the Transport while the loop thread is alive.
C2_NoControlIOWhileAlive == io.op # "none" => ~io.concurrent

\* C2 amended: while the loop thread is alive the control thread never
\* receives from the Transport and runs no probe; its only Transport access
\* is the send of an ordinary command by config_board.
C2_OnlyConfigSendsWhileAlive ==
    (io.op # "none" /\ io.concurrent) =>
        (io.by = "config" /\ io.op = "send" /\ io.cmd # "calc_time")

C2_Witness ==
    /\ io.concurrent /\ io.by = "config" /\ io.op = "send"
    /\ ThreadRunning /\ is_streaming

\* what C3 requires of a rejected call: no thread spawned, no Transport
\* I/O, the session state unchanged
Rejected ==
    /\ UNCHANGED <<serial, initialized, is_streaming, keep_alive, state,
                   threads, thr, m>>
    /\ io' = NoIO
    /\ ctl' = "idle"

\* C3: start on a session that is not prepared returns the not-created
\* error, start while streaming the already-running error, stop while not
\* streaming the thread-not-running error; each leaves the session as it was.
C3_MisuseRejected ==
    [][ /\ (StartCall /\ ~initialized) =>
             (ret' = Ret("start", "BOARD_NOT_CREATED_ERROR") /\ Rejected)
        /\ (StartCall /\ initialized /\ is_streaming) =>
             (ret' = Ret("start", "STREAM_ALREADY_RUN_ERROR") /\ Rejected)
        /\ (StopCall /\ ~is_streaming) =>
             (ret' = Ret("stop", "STREAM_THREAD_IS_NOT_RUNNING") /\ Rejected)
      ]_vars

C3_Witness ==
    /\ ret = Ret("start", "STREAM_ALREADY_RUN_ERROR")
    /\ is_streaming /\ threads = 1

\* C4: while start_stream has not returned and the process is alive, the
\* control thread or the loop thread can always take a step (they never
\* wait on each other).
C4_StartNeverStuck ==
    (ret = Ret("start", "PENDING") /\ ctl # "abort") =>
        ENABLED (ControlStep \/ ThreadStep)

\* C5: start_stream returns success only after the thread it spawned has
\* validated a frame, the session is then streaming, and no row is pushed
\* while the first-frame flag is not set.
C5_SuccessMeansFrameSeen ==
    /\ [](ret = Ret("start", "STATUS_OK") =>
            (run_frames > 0 /\ is_streaming /\ threads = 1))
    /\ [][Len(sink') > Len(sink) => state = "STATUS_OK"]_vars

C5_Witness ==
    /\ ret = Ret("start", "STATUS_OK")
    /\ frames > run_frames

\* C6: when start_stream returns the synchronization-timeout error the
\* thread is joined, the run flag is cleared, the session is prepared and
\* not streaming, and the first-frame flag is back at its waiting value.
C6_TimeoutLeavesPrepared ==
    ret = Ret("start", "SYNC_TIMEOUT_ERROR") =>
        /\ threads = 0 /\ thr = "none"
        /\ ~keep_alive /\ ~is_streaming
        /\ initialized /\ serial = "open"
        /\ state = "SYNC_TIMEOUT_ERROR"
        /\ m = "free"

C6_Witness == ret = Ret("start", "SYNC_TIMEOUT_ERROR") /\ ctl = "idle"

\* C7: when stop_stream called on a streaming session returns, with any
\* code, the thread has been joined and the session is prepared; no row is
\* pushed while no thread is alive.
C7_StopJoinsThread ==
    /\ []((ret.op = "stop" /\ ret.code \in {"STATUS_OK", "BOARD_WRITE_ERROR"}) =>
            (threads = 0 /\ thr = "none" /\ ~is_streaming /\ ~keep_alive
             /\ initialized /\ serial = "open"))
    /\ [][threads = 0 => sink' = sink]_vars

C7_Witness ==
    /\ ret = Ret("stop", "BOARD_WRITE_ERROR")
    /\ Len(sink) > 0

\* C8: once the run flag is cleared, the running loop thread eventually
\* returns from read_thread.
C8_LoopExits == (ThreadRunning /\ ~keep_alive) ~> ~ThreadRunning

\* C9: no probe runs while the loop thread is alive, and config_board with
\* the reserved command while streaming is rejected without Transport I/O
\* and without a change of half_rtt.
C9_NoProbeWhileStreaming ==
    /\ [](io.op = "probe" => ~io.concurrent)
    /\ [][ (/\ is_streaming /\ ctl = "idle" /\ ret'.op = "config"
            /\ \E rs \in {-1, 4, 5}, rr \in {-1, 0, 4}, d \in Durations :
                   config_board("calc_time", rs, rr, d)) =>
             /\ ret' = Ret("config", "BOARD_NOT_CREATED_ERROR")
             /\ io' = NoIO
             /\ half_rtt' = half_rtt
         ]_vars

C9_Witness ==
    /\ ret = Ret("config", "BOARD_NOT_CREATED_ERROR")
    /\ is_streaming /\ ThreadRunning /\ half_rtt > 0

\* C10: after a failed prepare_session the session is not initialized and
\* holds no Transport object.
C10_FailedPrepareReleases ==
    (ret.op = "prepare" /\ ret.code # "STATUS_OK") =>
        (~initialized /\ serial = "NULL" /\ live_serials = 0)

\* C11 as stated: prepare_session on an initialized session returns success
\* and changes nothing, and open_serial_port is called in exactly the steps
\* that are prepare_session calls on a session that is not initialized.
C11_OpenPerCreatedPrepare ==
    [][ /\ (Prepare /\ initialized) =>
             /\ ret' = Ret("prepare", "STATUS_OK")
             /\ io' = NoIO
             /\ UNCHANGED <<sessionVars, threadVars, ctl, caller, i>>
        /\ (Prepare /\ ~initialized) <=> io'.opens = 1
      ]_vars

\* C11 amended: as above, but open_serial_port is called in exactly the
\* prepare_session calls on a session that is not initialized whose port
\* name is not empty.
C11_OpenPerNonEmptyCreatedPrepare ==
    [][ /\ (Prepare /\ initialized) =>
             /\ ret' = Ret("prepare", "STATUS_OK")
             /\ io' = NoIO
             /\ UNCHANGED <<sessionVars, threadVars, ctl, caller, i>>
        /\ (/\ ~initialized /\ ctl = "idle" /\ ret'.op = "prepare"
            /\ \E o, st, b, c1, c2 \in BOOLEAN :
                   prepare_session(FALSE, o, st, b, c1, c2))
             <=> io'.opens = 1
      ]_vars

C11_Witness ==
    /\ ret = Ret("prepare", "STATUS_OK") /\ io = NoIO
    /\ initialized /\ is_streaming /\ ThreadRunning

\* C12: after release_session has returned no thread is alive, the session
\* holds no Transport object and is not initialized.
C12_ReleaseLeavesNothing ==
    ret = Ret("release", "STATUS_OK") =>
        (threads = 0 /\ serial = "NULL" /\ ~initialized)

\* C13: config_board on a session that is not initialized returns the
\* not-created error and makes no Transport call.
C13_ConfigNeedsPrepare ==
    [][ (Config /\ ~initialized) =>
            (ret' = Ret("config", "BOARD_NOT_CREATED_ERROR") /\ io' = NoIO)
      ]_vars

\* C18: the start command is sent only after three probes have succeeded,
\* and a failing probe ends start_stream with that probe's code, with no
\* further probe, no start command, no thread and the session still prepared.
C18_ProbesBeforeStart ==
    /\ []((io.by = "start" /\ io.op = "send") => i = num_probes)
    /\ [][ \A rs \in {probe_cmd_len, probe_cmd_len - 1},
              rr \in {bytes_to_calc_rtt, 0}, d \in Durations :
             (StartProbeWith(rs, rr, d) /\ calc_time_code(rs, rr) # "STATUS_OK") =>
                /\ ret' = Ret("start", calc_time_code(rs, rr))
                /\ ctl' = "idle"
                /\ io'.op = "probe"
                /\ threads' = 0 /\ threads = 0
                /\ initialized' /\ ~is_streaming' /\ ~keep_alive'
                /\ serial' = "open"
         ]_vars

C18_Witness ==
    /\ ret = Ret("start", "BOARD_WRITE_ERROR")
    /\ io.by = "start" /\ io.op = "probe"
    /\ initialized /\ threads = 0

\* the lifecycle state of the session
Lifecycle == <<serial, initialized, is_streaming, keep_alive, threads>>

\* what C19 says of config_board: a short write returns the write error
\* and leaves the lifecycle state as it was
ConfigShortWrite ==
    ((\E rr \in {bytes_to_calc_rtt, 0}, d \in Durations :
          config_board("x", Len("x"), rr, d)) /\ serial = "open") =>
        (ret' = Ret("config", "BOARD_WRITE_ERROR") /\ UNCHANGED Lifecycle)

\* what C19 says of start_stream: after a short write of the start command
\* the session is prepared and has no thread, as before the call
StartShortWrite ==
    (ret = Ret("start", "BOARD_WRITE_ERROR") /\ io.op = "send") =>
        (initialized /\ serial = "open" /\ ~is_streaming /\ ~keep_alive
         /\ threads = 0)

\* C19 as stated: after a short write config_board, start_stream and
\* stop_stream return the write error with the lifecycle state of before
\* the call; for stop_stream that state is streaming with the thread alive.
C19_ShortWriteKeepsState ==
    /\ [][ConfigShortWrite]_vars
    /\ []StartShortWrite
    /\ []((ret = Ret("stop", "BOARD_WRITE_ERROR") /\ io.op = "send") =>
            (initialized /\ serial = "open" /\ is_streaming /\ keep_alive
             /\ threads = 1))

\* C19 amended: a short write makes config_board and start_stream return
\* the write error with the lifecycle state as before the call; stop_stream
\* returns the write error with the thread joined and the session prepared.
C19_ShortWriteOutcome ==
    /\ [][ConfigShortWrite]_vars
    /\ []StartShortWrite
    /\ []((ret = Ret("stop", "BOARD_WRITE_ERROR") /\ io.op = "send") =>
            (initialized /\ serial = "open" /\ ~is_streaming /\ ~keep_alive
             /\ threads = 0))

C19_Witness ==
    /\ ret = Ret("stop", "BOARD_WRITE_ERROR") /\ io.op = "send"
    /\ initialized /\ threads = 0

\* C20: the drain loop makes at most max_attempt reads, and stop_stream
\* goes on to the trailing probes unless every one of the max_attempt reads
\* returned a byte.
C20_DrainErrorOnlyBeyondCap ==
    [][ \A n \in DrainBytes :
          StopDrainWith(n) =>
             /\ DrainAttempts(n) <= max_attempt
             /\ (ctl' = "stop_probe") <=> (n < max_attempt)
      ]_vars

(***************************************************************************)
(* The acquisition loop on a byte stream.                                  *)
(***************************************************************************)
\* the loop has taken every byte of a scripted stream and looks for a
\* start sentinel again
Drained ==
    stream.kind # "live" /\ stream.bytes = <<>> /\ thr = "read_first"

\* C14: on a stream of bytes that are no start sentinel followed by one
\* well-formed frame, every read for the first byte that returns no start
\* sentinel takes at most that one byte and leaves the loop looking for a
\* start sentinel with nothing read into the body, nothing validated and
\* nothing pushed; the body read is entered only by reading a start
\* sentinel; and when the stream is used up exactly one frame was decoded.
C14_ResyncThenOneFrame ==
    /\ [][\A byte \in ByteKinds \ {"start"} :
            (keep_alive /\ ReadFirstWith(byte)) =>
                /\ thr' = "read_first"
                /\ UNCHANGED <<pos, remaining_bytes, sink, frames, state,
                               body, timeVars>>
                /\ Len(stream.bytes) - Len(stream'.bytes)
                       = IF byte = "none" THEN 0 ELSE 1]_vars
    /\ [][thr = "read_first" =>
            /\ thr' \in {"read_first", "read_body", "exit"}
            /\ thr' = "read_body" =>
                /\ stream.bytes # <<>>
                /\ Head(stream.bytes) = "start"
                /\ stream'.bytes = Tail(stream.bytes)]_vars
    /\ []((Drained /\ stream.tails = <<"stop">>) =>
            /\ frames = 1
            /\ Len(sink) = RowsPerFrame
            /\ Len(observed) = 1)

C14_Witness ==
    /\ Drained /\ stream.kind = "sync"
    /\ stream.junk > 1 /\ stream.tails = <<"stop">>
    /\ frames = 1 /\ Len(sink) = RowsPerFrame

\* C15: a read of the byte after the body that returns no byte, or a byte
\* that is not the stop sentinel, pushes no row, leaves the first-frame
\* flag and the offset history as they were, keeps the thread running and
\* puts the loop back at the search for a start sentinel; a stream whose
\* only frame is such a frame ends with an empty sink, and a well-formed
\* frame that follows it is decoded.
C15_BadStopDropsFrame ==
    /\ [][\A byte \in ByteKinds \ {"stop"}, bd \in Bodies, pc \in Timestamps :
            ReadLastWith(byte, bd, pc) =>
                /\ thr' = "read_first"
                /\ UNCHANGED <<sink, state, timeVars, frames, threads,
                               keep_alive>>]_vars
    /\ []((Drained /\ Len(stream.tails) = 1 /\ stream.tails[1] # "stop") =>
            /\ sink = <<>>
            /\ state = "SYNC_TIMEOUT_ERROR"
            /\ observed = <<>>
            /\ ThreadRunning)
    /\ []((Drained /\ Len(stream.tails) = 2 /\ stream.tails[1] # "stop") =>
            /\ frames = 1
            /\ Len(sink) = RowsPerFrame
            /\ Len(observed) = 1)

C15_Witness ==
    /\ Drained /\ Len(stream.tails) = 2 /\ stream.tails[1] = "other"
    /\ frames = 1 /\ Len(sink) = RowsPerFrame /\ state = "STATUS_OK"

\* the loop is between two frames, or has not run
AtRest == thr \in {"none", "read_first", "read_body", "read_last", "exit"}

\* C16: the sink only grows at its end; its rows repeat, frame after
\* frame, the order dense package 0, its sub-packages 1..M, dense package
\* 1, its sub-packages, ...; whenever the loop is between two frames the
\* sink holds N*(1+M) rows per validated frame; a dense row carries the
\* counter byte of its package and a compact row the counter of its dense
\* package plus its 1-based position.
C16_RowsInWireOrder ==
    /\ [][sink' = sink \/ (Len(sink') = Len(sink) + 1
                           /\ SubSeq(sink', 1, Len(sink)) = sink)]_vars
    /\ [](\A j \in 1 .. Len(sink) :
            /\ sink[j].base
                   = ((j - 1) % RowsPerFrame) \div (1 + num_exg_packages_per_base)
            /\ sink[j].sub
                   = ((j - 1) % RowsPerFrame) % (1 + num_exg_packages_per_base)
            /\ sink[j].sub > 0 =>
                   sink[j].counter = sink[j - sink[j].sub].counter + sink[j].sub)
    /\ [](AtRest => Len(sink) = frames * RowsPerFrame)
    /\ [][Len(sink') > Len(sink) =>
            (sink'[Len(sink')].sub = 0 =>
                sink'[Len(sink')].counter
                    = body.counter[sink'[Len(sink')].base + 1])]_vars

C16_Witness ==
    /\ Drained /\ stream.kind = "run"
    /\ frames = RunFrames
    /\ Len(sink) = RunFrames * RowsPerFrame
    /\ sink[Len(sink)].base = num_base_packages - 1
    /\ sink[Len(sink)].sub = num_exg_packages_per_base
    /\ sink[Len(sink)].counter
           = body.counter[num_base_packages] + num_exg_packages_per_base

\* C17: the running thread has recorded one offset observation per frame
\* it validated (the frame whose first-frame flag is still to be set has
\* none yet); the latest observation is the host time less the device
\* timestamp, in seconds, of the last dense package of the frame; the
\* smoothed offset is the sum of the last min(k,10) of the k observations
\* over min(k,10); every row is pushed with the smoothed offset of its
\* frame; and after ten equal observations a and an eleventh b the
\* smoothed offset exceeds a by (b - a) / 10.
C17_SmoothedOffset ==
    /\ [](Len(observed) = IF thr = "lock_state" THEN run_frames - 1
                          ELSE run_frames)
    /\ []((observed # <<>> /\ thr # "lock_state") =>
            \E pc \in Timestamps :
                observed[Len(observed)]
                    = pc - (body.ts[num_base_packages] \div ms_per_second))
    /\ [](observed # <<>> =>
            /\ time_delta.num = Min(Len(observed), max_time_deltas)
            /\ time_delta.sum
                   = SeqSum(SubSeq(observed,
                                   Len(observed) - time_delta.num + 1,
                                   Len(observed))))
    /\ [][Len(sink') > Len(sink) =>
            /\ observed # <<>>
            /\ UNCHANGED timeVars
            /\ sink'[Len(sink')].offset = time_delta]_vars
    /\ []((/\ Len(observed) = max_time_deltas + 1
           /\ \A j \in 1 .. max_time_deltas : observed[j] = observed[1]) =>
            max_time_deltas * (time_delta.sum - time_delta.num * observed[1])
                = time_delta.num * (observed[max_time_deltas + 1] - observed[1]))

C17_Witness ==
    /\ Len(observed) = max_time_deltas + 1
    /\ \A j \in 1 .. max_time_deltas : observed[j] = observed[1]
    /\ observed[max_time_deltas + 1] # observed[1]
    /\ thr = "push_exg"
    /\ sink[Len(sink)].offset = time_delta
    /\ time_delta.num = max_time_deltas

ProbeSends == {probe_cmd_len, probe_cmd_len - 1, -1}
ProbeRecvs == {bytes_to_calc_rtt, 0, -1}

\* a step that runs calc_time with these Transport results and duration
ProbeWith(res_send, res_recv, d) ==
    \/ StartProbeWith(res_send, res_recv, d)
    \/ StopProbeWith(res_send, res_recv, d)
    \/ /\ serial # "NULL" /\ ~is_streaming /\ ret'.op = "config"
       /\ config_board("calc_time", res_send, res_recv, d)

\* C24: a probe whose command is fully written and whose reply is fully
\* read sets half_rtt to half of its duration; any other probe, and every
\* step that runs no probe, leaves half_rtt as it was; so when start_stream
\* goes on to send the start command half_rtt is half the duration of its
\* third probe, and it keeps that value until start_stream returns.
C24_HalfRttOfLastGoodProbe ==
    /\ [][\A res_send \in ProbeSends, res_recv \in ProbeRecvs, d \in Durations :
            ProbeWith(res_send, res_recv, d) =>
                half_rtt' = IF /\ res_send = probe_cmd_len
                               /\ res_recv = bytes_to_calc_rtt
                            THEN d \div 2 ELSE half_rtt]_vars
    /\ [][half_rtt' # half_rtt => (io'.op = "probe" /\ ~io'.fail)]_vars
    /\ [][\A d \in Durations :
            (/\ StartProbeWith(probe_cmd_len, bytes_to_calc_rtt, d)
             /\ ctl' = "start_send") =>
                (i = num_probes - 1 /\ half_rtt' = d \div 2)]_vars
    /\ [][(ctl \in {"start_send", "start_wait"} /\ ret.op = "start"
           /\ caller = "none" /\ caller' = "none") =>
                half_rtt' = half_rtt]_vars

C24_Witness ==
    /\ io.op = "probe" /\ io.fail /\ io.by = "start"
    /\ half_rtt = 2
    /\ ret = Ret("start", "BOARD_WRITE_ERROR")

(***************************************************************************)
(* The decode of a frame body.                                             *)
(***************************************************************************)
\* C22: every row pushed was scaled with one and the same table: the same
\* scale at each sample position, for dense packages and for compact
\* sub-packages alike.
C22_OneScaleTable ==
    \A j \in 1 .. Len(sink) : row_scales(sink[j]) = row_scales(sink[1])

\* the rows of the sink that belong to the same frame as row j
SameFrame(j) ==
    {k \in 1 .. Len(sink) :
        (k - 1) \div RowsPerFrame = (j - 1) \div RowsPerFrame}

\* C23: the bytes decoded for compact sub-package k of dense package j
\* start after the dense package's own fields, at j*entry_size +
\* dense_size + k*compact_size; the regions of two rows of one frame are
\* disjoint; every region lies inside the body; and the regions of the
\* rows of a decoded frame add up to the N*(dense_size + M*compact_size)
\* bytes of the body.
C23_RegionsPartitionBody ==
    /\ \A j \in 1 .. Len(sink) :
        /\ row_first(sink[j])
               = sink[j].base * bytes_in_single_entry
                   + (IF sink[j].sub = 0 THEN 0
                      ELSE base_package_size
                               + (sink[j].sub - 1) * exg_package_size)
        /\ row_first(sink[j]) >= 0
        /\ row_last(sink[j]) < num_base_packages * bytes_in_single_entry
        /\ \A k \in SameFrame(j) \ {j} :
               \/ row_last(sink[j]) < row_first(sink[k])
               \/ row_last(sink[k]) < row_first(sink[j])
    /\ (AtRest /\ sink # <<>>) =>
           SeqSum([j \in 1 .. RowsPerFrame |->
                       row_last(sink[j]) - row_first(sink[j]) + 1])
               = num_base_packages * bytes_in_single_entry

\* C25: while the body is accumulated pos and remaining_bytes both stay
\* within 0 .. transaction_size and add up to transaction_size, whatever
\* the reads returned, so that every read stores its bytes inside b.
C25_BodyCursorInBounds ==
    thr = "read_body" =>
        /\ pos \in 0 .. transaction_size
        /\ remaining_bytes \in 0 .. transaction_size
        /\ pos + remaining_bytes = transaction_size

====
